---- MODULE Spec2Model ----
(***************************************************************************)
(* ImageDisplay (src/dltb/base/image.py, lines 826-1262): the blocking /   *)
(* non-blocking event loop management of an image display.                 *)
(*                                                                         *)
(* Threads: the main thread (the program using the display) and a pool of  *)
(* background threads created by the display itself: the non-blocking      *)
(* event loop (_run_nonblocking_event_loop) and the presentation thread    *)
(* (present).  Every read or write of a field of the display is one step   *)
(* of the thread doing it; the labels carry the source line of the step.   *)
(* The hooks _open, _close, _show and _process_events are those of a       *)
(* subclass: they are recorded (window, shw, pe) and change nothing of     *)
(* the display's own fields.                                               *)
(*                                                                         *)
(* ImageAdapter / ImageExtension (same file, lines 347-438): the rewriting *)
(* of the bases of a class when it is defined.  Every class statement is   *)
(* one step; the classes, their bases and the registry of extensions are   *)
(* the state.  The two parts share no state: the steps of the display      *)
(* leave the classes alone (Spec), the class statements leave the display  *)
(* alone (SpecExt).                                                        *)
(***************************************************************************)
EXTENDS Integers, Sequences, FiniteSets, TLC

\* number of background threads that can exist at the same time
MaxThreads == 2
\* nesting depth of the context manager (_entered)
MaxEntered == 1
\* number of class statements executed after those of the module itself
MaxClasses == 4
\* number of bases listed in one class statement
MaxBases == 3

None == 0
Main == 1
Pool == 2..(1 + MaxThreads)
Threads == {Main} \cup Pool
Tri == {"True", "False", "None"}

\* the classes: the four that exist once the module is imported, then the
\* classes of the program in the order of their class statements
Object == 0
ABC == 1
ImageAdapter == 2
ImageExtension == 3
UserClasses == 4..(3 + MaxClasses)
Classes == 0..(3 + MaxClasses)

VARIABLES
    opened,        \* self._opened
    blocking,      \* self._blocking
    entered,       \* self._entered
    event_loop,    \* self._event_loop: None or a thread
    presentation,  \* self._presentation: None or a thread
    window,        \* the native window is on screen (between _open and _close)
    ex5,           \* the with-block of docstring Example 5 is being executed
    th,            \* the threads: position, call stack and local variables
    bases,         \* cls.__bases__ of every class
    mro,           \* cls.__mro__ of every class
    defined,       \* the classes that exist
    extensions,    \* ImageAdapter._image_extensions, in insertion order
    nstmt,         \* number of class statements executed so far
    last           \* the last class statement and its outcome

classVars == <<bases, mro, defined, extensions, nstmt, last>>
displayVars ==
    <<opened, blocking, entered, event_loop, presentation, window, ex5, th>>
vars == <<displayVars,
                 classVars>>

\* a thread that is not running; also the locals of a thread outside any call
Fresh ==
    [st |-> "dead", pc |-> "exit", stack |-> <<>>,
     argC |-> "None", tmo |-> FALSE,
     blk |-> "None", cls |-> FALSE, ref |-> None,
     cb |-> FALSE, pa |-> FALSE, ev0 |-> None, why |-> "none", ran |-> FALSE,
     pe |-> 0, shw |-> 0]

MainIdle == [Fresh EXCEPT !.st = "alive", !.pc = "idle"]

\* no class statement executed yet
NoStatement ==
    [cls |-> Object, decl |-> <<>>, kw |-> Object, reg |-> <<>>,
     res |-> "none"]

\* the classes after the import of the module: ABC, ImageAdapter(ABC) and
\* ImageExtension(ImageAdapter, ABC); the registry is empty
InitClasses ==
    /\ bases = [c \in Classes |->
                  CASE c = ABC -> <<Object>>
                    [] c = ImageAdapter -> <<ABC>>
                    [] c = ImageExtension -> <<ImageAdapter, ABC>>
                    [] OTHER -> <<>>]
    /\ mro = [c \in Classes |->
                CASE c = Object -> <<Object>>
                  [] c = ABC -> <<ABC, Object>>
                  [] c = ImageAdapter -> <<ImageAdapter, ABC, Object>>
                  [] c = ImageExtension ->
                         <<ImageExtension, ImageAdapter, ABC, Object>>
                  [] OTHER -> <<>>]
    /\ defined = {Object, ABC, ImageAdapter, ImageExtension}
    /\ extensions = <<>>
    /\ nstmt = 0
    /\ last = NoStatement

Init ==
    /\ opened = FALSE
    /\ blocking \in Tri
    /\ entered = 0
    /\ event_loop = None
    /\ presentation = None
    /\ window = FALSE
    /\ ex5 = "off"
    /\ th = [t \in Threads |-> IF t = Main THEN MainIdle ELSE Fresh]
    /\ InitClasses

closed == ~opened

event_loop_is_running == event_loop # None

At(t, l) == th[t].st = "alive" /\ th[t].pc = l

Referenced(s) ==
    \/ event_loop = s
    \/ presentation = s
    \/ \E t \in Threads : th[t].ref = s

\* a thread object that can be created: not running and no longer referred to
Avail(s) == s \in Pool /\ th[s].st # "alive" /\ ~Referenced(s)

NewThread == CHOOSE s \in Pool : Avail(s) /\ \A r \in Pool : Avail(r) => s <= r

\* the locals of show() are dropped when show() is left
DropShow(r) ==
    [r EXCEPT !.argC = "None", !.tmo = FALSE, !.blk = "None",
              !.cls = FALSE, !.cb = FALSE, !.pa = FALSE, !.ev0 = None,
              !.why = "none",
              !.ran = FALSE, !.pe = 0, !.shw = 0]

\* return from the current call: continue at the label on top of the stack;
\* a background thread whose target returns has terminated, and the main
\* thread back in the program has left every call
Ret(r) ==
    IF Head(r.stack) = "exit" THEN Fresh
    ELSE IF Head(r.stack) = "idle" THEN MainIdle
    ELSE [r EXCEPT !.pc = Head(r.stack), !.stack = Tail(r.stack)]

\* call: continue at label l and come back to label back
CallTo(r, l, back) == [r EXCEPT !.pc = l, !.stack = <<back>> \o r.stack]

InPresenter(r) == \E i \in 1..Len(r.stack) : r.stack[i] = "presenter"

\* inside the with-block of present (line 1113)
InWith(r) == \E i \in 1..Len(r.stack) : r.stack[i] = "exit_1001"

\* an exception propagates: out of the presenter into the handler of
\* present.target (lines 1107-1111), out of any other frame of a background
\* thread it ends the thread, in the main thread it reaches the program,
\* through __exit__ when it leaves the with-block of present
Raise(t) ==
    IF t = Main
    THEN IF InWith(th[t])
         THEN [MainIdle EXCEPT !.pc = "exit_1001", !.stack = <<"idle">>]
         ELSE MainIdle
    ELSE IF InPresenter(th[t])
         THEN [DropShow(th[t]) EXCEPT !.pc = "target_1111", !.stack = <<"exit">>, !.ref = None]
         ELSE Fresh

----------------------------------------------------------------------------
(* the program: the calls made by the main thread *)

\* lines 1042-1045: blocking = self._blocking if blocking is None else blocking
EffectiveBlocking(pres, arg, prop) ==
    IF pres # None THEN "None"
    ELSE IF arg = "None" THEN prop ELSE arg

\* line 1048: close = self.closed and (blocking is True)
DefaultClose(isClosed, blk) == isClosed /\ blk = "True"

\* line 1067: `not self.event_loop_is_running() is None` is
\* `not (self.event_loop_is_running() is None)`: a bool is never None
IsNone(x) == x \notin BOOLEAN
BlockingLoopGuard(running) == ~IsNone(running)

\* line 1073: if not self.event_loop_is_running()
NonblockingLoopGuard(running) == ~running

\* the loop of line 1220 with the timeout test turned around: a loop with a
\* timeout ends at once
LoopContinues_TimeoutEndsAtOnce(isClosed, hasTimeout, expired) ==
    ~isClosed /\ ~hasTimeout

\* line 1220: while not self.closed and (timeout is None or time < start + timeout)
LoopContinues(isClosed, hasTimeout, expired) ==
    ~isClosed /\ (~hasTimeout \/ ~expired)

\* line 1122: if not self._opened and self._presentation is None
OpenGuard(isOpened, pres) == ~isOpened /\ pres = None

\* the setter without the test of line 982
SetterOutcome_NoOpenTest(new, old, isClosed) ==
    IF new = old THEN "same" ELSE "set"

\* lines 980-984: the setter of blocking: "same", "raise" or "set"
SetterOutcome(new, old, isClosed) ==
    IF new = old THEN "same"
    ELSE IF ~isClosed THEN "raise" ELSE "set"

\* Example 5 is left as soon as the program does anything but show(timeout=t)
Ex5Off == IF ex5 = "on" THEN "off" ELSE ex5

NoBackground == \A s \in Pool : th[s].st = "dead"

\* a presenter function is running in some thread
PresenterActive ==
    \E s \in Pool : th[s].st = "alive" /\ (th[s].pc = "presenter" \/ InPresenter(th[s]))

\* display.show(image, blocking=b, close=c, timeout=...), with lines 1042-1045.
\* The timeout is only passed on to the blocking loop (line 1068).  A show
\* that may have to create the event loop thread needs a free thread.
\* Recorded for the properties: the display was closed (cb), a presenter was
\* running (pa), and _event_loop of a show that is to start no loop (ev0).
CallShow ==
    /\ At(Main, "idle")
    /\ \E b \in Tri, c \in Tri, tm \in BOOLEAN :
          LET blk == EffectiveBlocking(presentation, b, blocking) IN
          /\ tm => blk = "True"
          /\ blk = "False" => \E s \in Pool : Avail(s)
          /\ th' = [th EXCEPT ![Main] =
                      [CallTo(@, "show_1047", "idle") EXCEPT
                          !.blk = blk, !.argC = c, !.tmo = tm, !.cb = closed,
                          !.pa = PresenterActive,
                          !.ev0 = IF blk = "None" THEN event_loop ELSE None]]
          /\ ex5' = IF ex5 = "on" /\ tm /\ c = "None" /\ blk = "True"
                    THEN "on" ELSE Ex5Off
    /\ UNCHANGED <<opened, blocking, entered, event_loop, presentation, window,
                 classVars>>

CallOpen ==
    /\ At(Main, "idle")
    /\ th' = [th EXCEPT ![Main] = CallTo(@, "open_1122", "idle")]
    /\ ex5' = Ex5Off
    /\ UNCHANGED <<opened, blocking, entered, event_loop, presentation, window,
                 classVars>>

CallClose ==
    /\ At(Main, "idle")
    /\ th' = [th EXCEPT ![Main] = CallTo(@, "close_1134", "idle")]
    /\ ex5' = Ex5Off
    /\ UNCHANGED <<opened, blocking, entered, event_loop, presentation, window,
                 classVars>>

\* __enter__, lines 990-997
CallEnter ==
    /\ At(Main, "idle")
    /\ entered < MaxEntered
    /\ entered' = entered + 1
    /\ th' = [th EXCEPT ![Main] = CallTo(@, "open_1122", "idle")]
    /\ ex5' = IF entered = 0 /\ closed /\ NoBackground /\ blocking = "True"
              THEN "on" ELSE Ex5Off
    /\ UNCHANGED <<opened, blocking, event_loop, presentation, window,
                 classVars>>

\* __exit__, lines 999-1003: the end of a with-block that was entered
CallExit ==
    /\ At(Main, "idle")
    /\ entered > 0
    /\ th' = [th EXCEPT ![Main] = CallTo(@, "exit_1001", "idle")]
    /\ ex5' = Ex5Off
    /\ UNCHANGED <<opened, blocking, entered, event_loop, presentation, window,
                 classVars>>

\* present, lines 1113: with self
CallPresent ==
    /\ At(Main, "idle")
    /\ entered < MaxEntered
    /\ \E s \in Pool : Avail(s)
    /\ entered' = entered + 1
    /\ th' = [th EXCEPT ![Main] = CallTo(CallTo(@, "open_1122", "idle"),
                                         "open_1122", "present_1115")]
    /\ ex5' = Ex5Off
    /\ UNCHANGED <<opened, blocking, event_loop, presentation, window,
                 classVars>>

\* display.blocking = v, lines 978-984
CallSetBlocking ==
    /\ At(Main, "idle")
    /\ \E v \in Tri :
          LET out == SetterOutcome(v, blocking, closed) IN
          /\ blocking' = IF out = "set" THEN v ELSE blocking
          /\ th' = [th EXCEPT ![Main] =
                      [@ EXCEPT !.pc = "set_end", !.argC = v, !.blk = blocking,
                                !.cb = closed, !.why = out]]
    /\ ex5' = Ex5Off
    /\ UNCHANGED <<opened, entered, event_loop, presentation, window,
                 classVars>>

SetReturn ==
    /\ At(Main, "set_end")
    /\ th' = [th EXCEPT ![Main] = MainIdle]
    /\ UNCHANGED <<opened, blocking, entered, event_loop, presentation, window, ex5,
                 classVars>>

----------------------------------------------------------------------------
(* show, lines 1042-1082 *)

Show1047 ==
    \E t \in Threads :
    /\ At(t, "show_1047")
    /\ th' = [th EXCEPT ![t] =
                [@ EXCEPT !.pc = "show_1051",
                          !.cls = IF th[t].argC = "None"
                                  THEN DefaultClose(closed, th[t].blk)
                                  ELSE th[t].argC = "True"]]
    /\ UNCHANGED <<opened, blocking, entered, event_loop, presentation, window, ex5,
                 classVars>>

Show1051 ==
    \E t \in Threads :
    /\ At(t, "show_1051")
    /\ th' = [th EXCEPT ![t] =
                IF closed
                THEN IF presentation = t THEN Raise(t)
                     ELSE CallTo(@, "open_1122", "show_1063")
                ELSE [@ EXCEPT !.pc = "show_1063"]]
    /\ UNCHANGED <<opened, blocking, entered, event_loop, presentation, window, ex5,
                 classVars>>

\* line 1063: self._show(array); lines 1066-1076: run the event loop
Show1063 ==
    \E t \in Threads :
    /\ At(t, "show_1063")
    /\ th' = [th EXCEPT ![t] =
                IF @.blk = "True"
                THEN IF BlockingLoopGuard(event_loop_is_running)
                     THEN [CallTo(@, "rbl_1234", "show_1079") EXCEPT !.shw = 1]
                     ELSE [@ EXCEPT !.pc = "show_1079", !.shw = 1]
                ELSE IF @.blk = "False"
                THEN IF NonblockingLoopGuard(event_loop_is_running)
                     THEN [CallTo(@, "rnb_1250", "show_1079") EXCEPT !.shw = 1]
                     ELSE [@ EXCEPT !.pc = "show_1079", !.shw = 1]
                ELSE [@ EXCEPT !.pc = "show_1079", !.shw = 1, !.pe = @ + 1]]
    /\ UNCHANGED <<opened, blocking, entered, event_loop, presentation, window, ex5,
                 classVars>>

\* lines 1079-1082: close the window if desired
Show1079 ==
    \E t \in Threads :
    /\ At(t, "show_1079")
    /\ th' = [th EXCEPT ![t] =
                IF @.cls THEN CallTo(@, "close_1134", "show_end")
                ELSE [@ EXCEPT !.pc = "show_end"]]
    /\ UNCHANGED <<opened, blocking, entered, event_loop, presentation, window, ex5,
                 classVars>>

ShowReturn ==
    \E t \in Threads :
    /\ At(t, "show_end")
    /\ th' = [th EXCEPT ![t] = Ret(DropShow(@))]
    /\ UNCHANGED <<opened, blocking, entered, event_loop, presentation, window, ex5,
                 classVars>>

----------------------------------------------------------------------------
(* open, lines 1119-1124 *)

Open1122 ==
    \E t \in Threads :
    /\ At(t, "open_1122")
    /\ th' = [th EXCEPT ![t] =
                IF OpenGuard(opened, presentation)
                THEN [@ EXCEPT !.pc = "open_1123"]
                ELSE Ret(@)]
    /\ UNCHANGED <<opened, blocking, entered, event_loop, presentation, window, ex5,
                 classVars>>

\* self._open()
Open1123 ==
    \E t \in Threads :
    /\ At(t, "open_1123")
    /\ window' = TRUE
    /\ th' = [th EXCEPT ![t].pc = "open_1124"]
    /\ UNCHANGED <<opened, blocking, entered, event_loop, presentation, ex5,
                 classVars>>

Open1124 ==
    \E t \in Threads :
    /\ At(t, "open_1124")
    /\ opened' = TRUE
    /\ th' = [th EXCEPT ![t] = Ret(@)]
    /\ UNCHANGED <<blocking, entered, event_loop, presentation, window, ex5,
                 classVars>>

----------------------------------------------------------------------------
(* close, lines 1126-1153 *)

\* line 1134: if self._opened
Close1134 ==
    \E t \in Threads :
    /\ At(t, "close_1134")
    /\ th' = [th EXCEPT ![t].pc = IF opened THEN "close_1135" ELSE "close_1138"]
    /\ UNCHANGED <<opened, blocking, entered, event_loop, presentation, window, ex5,
                 classVars>>

Close1135 ==
    \E t \in Threads :
    /\ At(t, "close_1135")
    /\ opened' = FALSE
    /\ th' = [th EXCEPT ![t].pc = "close_1136"]
    /\ UNCHANGED <<blocking, entered, event_loop, presentation, window, ex5,
                 classVars>>

\* close() without the call of self._close(): the window stays on screen
Close1136_WindowStays ==
    \E t \in Threads :
    /\ At(t, "close_1136")
    /\ th' = [th EXCEPT ![t].pc = "close_1138"]
    /\ UNCHANGED <<opened, blocking, entered, event_loop, presentation, window, ex5,
                 classVars>>

\* line 1136: self._close()
Close1136 ==
    \E t \in Threads :
    /\ At(t, "close_1136")
    /\ window' = FALSE
    /\ th' = [th EXCEPT ![t].pc = "close_1138"]
    /\ UNCHANGED <<opened, blocking, entered, event_loop, presentation, ex5,
                 classVars>>

\* lines 1138-1145: presentation = self._presentation
Close1138 ==
    \E t \in Threads :
    /\ At(t, "close_1138")
    /\ th' = [th EXCEPT ![t] =
                IF presentation # None /\ presentation # t
                THEN [@ EXCEPT !.pc = "close_1146", !.ref = presentation]
                ELSE [@ EXCEPT !.pc = "close_1149"]]
    /\ UNCHANGED <<opened, blocking, entered, event_loop, presentation, window, ex5,
                 classVars>>

\* Thread.join(): returns when the thread has terminated, never for the main
\* thread, and raises RuntimeError for a thread that was not started yet
JoinReturns(s) == s # Main /\ th[s].st = "dead"
JoinRaises(s) == s # Main /\ th[s].st = "created"

\* line 1146: presentation.join()
Close1146 ==
    \E t \in Threads :
    /\ At(t, "close_1146")
    /\ JoinReturns(th[t].ref) \/ JoinRaises(th[t].ref)
    /\ th' = [th EXCEPT ![t] =
                IF JoinRaises(@.ref) THEN Raise(t)
                ELSE [@ EXCEPT !.pc = "close_1147", !.ref = None]]
    /\ UNCHANGED <<opened, blocking, entered, event_loop, presentation, window, ex5,
                 classVars>>

Close1147 ==
    \E t \in Threads :
    /\ At(t, "close_1147")
    /\ presentation' = None
    /\ th' = [th EXCEPT ![t].pc = "close_1149"]
    /\ UNCHANGED <<opened, blocking, entered, event_loop, window, ex5,
                 classVars>>

\* lines 1149-1151: event_loop = self._event_loop
Close1149 ==
    \E t \in Threads :
    /\ At(t, "close_1149")
    /\ th' = [th EXCEPT ![t] =
                IF event_loop = None THEN [@ EXCEPT !.pc = "close_end"]
                ELSE IF event_loop # t
                     THEN [@ EXCEPT !.pc = "close_1152", !.ref = event_loop]
                     ELSE [@ EXCEPT !.pc = "close_1153"]]
    /\ UNCHANGED <<opened, blocking, entered, event_loop, presentation, window, ex5,
                 classVars>>

\* line 1152: event_loop.join()
Close1152 ==
    \E t \in Threads :
    /\ At(t, "close_1152")
    /\ JoinReturns(th[t].ref) \/ JoinRaises(th[t].ref)
    /\ th' = [th EXCEPT ![t] =
                IF JoinRaises(@.ref) THEN Raise(t)
                ELSE [@ EXCEPT !.pc = "close_1153", !.ref = None]]
    /\ UNCHANGED <<opened, blocking, entered, event_loop, presentation, window, ex5,
                 classVars>>

Close1153 ==
    \E t \in Threads :
    /\ At(t, "close_1153")
    /\ event_loop' = None
    /\ th' = [th EXCEPT ![t].pc = "close_end"]
    /\ UNCHANGED <<opened, blocking, entered, presentation, window, ex5,
                 classVars>>

CloseReturn ==
    \E t \in Threads :
    /\ At(t, "close_end")
    /\ th' = [th EXCEPT ![t] = Ret(@)]
    /\ UNCHANGED <<opened, blocking, entered, event_loop, presentation, window, ex5,
                 classVars>>

----------------------------------------------------------------------------
(* the event loops, lines 1212-1257 *)

\* line 1234: self._event_loop = threading.current_thread()
RunBlocking1234 ==
    \E t \in Threads :
    /\ At(t, "rbl_1234")
    /\ event_loop' = t
    /\ th' = [th EXCEPT ![t] = [@ EXCEPT !.pc = "del_1220", !.ran = TRUE]]
    /\ UNCHANGED <<opened, blocking, entered, presentation, window, ex5,
                 classVars>>

\* lines 1220-1223: one test of the loop condition; the clock is read at
\* every test, so a given timeout has or has not elapsed.  An iteration
\* (_process_events, sleep) changes nothing of the display.
DummyLoop1220 ==
    \E t \in Threads :
    /\ At(t, "del_1220")
    /\ \E expired \in BOOLEAN :
          /\ ~LoopContinues(closed, th[t].tmo, expired)
          /\ th' = [th EXCEPT ![t] =
                      [@ EXCEPT !.pc = "del_1230",
                                !.why = IF closed THEN "closed"
                                        ELSE IF th[t].tmo /\ expired THEN "timeout"
                                        ELSE "early"]]
    /\ UNCHANGED <<opened, blocking, entered, event_loop, presentation, window, ex5,
                 classVars>>

\* line 1230: finally: self._event_loop = None
DummyLoop1230 ==
    \E t \in Threads :
    /\ At(t, "del_1230")
    /\ event_loop' = None
    /\ th' = [th EXCEPT ![t].pc = "close_1134"]
    /\ UNCHANGED <<opened, blocking, entered, presentation, window, ex5,
                 classVars>>

\* lines 1250-1253: self._event_loop = threading.Thread(...)
RunNonblocking1250 ==
    \E t \in Threads :
    /\ At(t, "rnb_1250")
    /\ event_loop_is_running \/ \E s \in Pool : Avail(s)
    /\ IF event_loop_is_running
       THEN /\ th' = [th EXCEPT ![t] = Raise(t)]
            /\ UNCHANGED event_loop
       ELSE /\ event_loop' = NewThread
            /\ th' = [th EXCEPT ![t].pc = "rnb_1254",
                                ![NewThread] = [Fresh EXCEPT !.st = "created"]]
    /\ UNCHANGED <<opened, blocking, entered, presentation, window, ex5,
                 classVars>>

\* the thread started runs _nonblocking_event_loop: _dummy_event_loop()
Started(pc) == [Fresh EXCEPT !.st = "alive", !.pc = pc, !.stack = <<"exit">>]

\* Thread.start(): None has no start (AttributeError), and a thread can only
\* be started once (RuntimeError)
StartRaises(s) == s = None \/ th[s].st # "created"

\* line 1254: self._event_loop.start()
RunNonblocking1254 ==
    \E t \in Threads :
    /\ At(t, "rnb_1254")
    /\ th' = IF StartRaises(event_loop) THEN [th EXCEPT ![t] = Raise(t)]
             ELSE [th EXCEPT ![t] = Ret(@), ![event_loop] = Started("del_1220")]
    /\ UNCHANGED <<opened, blocking, entered, event_loop, presentation, window, ex5,
                 classVars>>

----------------------------------------------------------------------------
(* the context manager and present, lines 999-1003 and 1084-1117 *)

Exit1001 ==
    \E t \in Threads :
    /\ At(t, "exit_1001")
    /\ entered' = entered - 1
    /\ th' = [th EXCEPT ![t] =
                IF entered - 1 = 0 THEN [@ EXCEPT !.pc = "close_1134"] ELSE Ret(@)]
    /\ UNCHANGED <<opened, blocking, event_loop, presentation, window, ex5,
                 classVars>>

\* line 1115: self._presentation = threading.Thread(target=target)
Present1115 ==
    \E t \in Threads :
    /\ At(t, "present_1115")
    /\ \E s \in Pool : Avail(s)
    /\ presentation' = NewThread
    /\ th' = [th EXCEPT ![t].pc = "present_1116",
                        ![NewThread] = [Fresh EXCEPT !.st = "created"]]
    /\ UNCHANGED <<opened, blocking, entered, event_loop, window, ex5,
                 classVars>>

\* line 1116: self._presentation.start(); an AttributeError leaves the
\* with-block through __exit__
Present1116 ==
    \E t \in Threads :
    /\ At(t, "present_1116")
    /\ th' = IF StartRaises(presentation)
             THEN [th EXCEPT ![t].pc = "exit_1001"]
             ELSE [th EXCEPT ![t].pc = "present_1117",
                             ![presentation] = Started("presenter")]
    /\ UNCHANGED <<opened, blocking, entered, event_loop, presentation, window, ex5,
                 classVars>>

\* line 1117: self._run_blocking_event_loop(), then the with-block ends
Present1117 ==
    \E t \in Threads :
    /\ At(t, "present_1117")
    /\ th' = [th EXCEPT ![t] = CallTo(@, "rbl_1234", "exit_1001")]
    /\ UNCHANGED <<opened, blocking, entered, event_loop, presentation, window, ex5,
                 classVars>>

\* the presenter function (docstring Example 6): it calls
\* display.show(frame) any number of times and returns
PresenterShow ==
    \E t \in Pool :
    /\ At(t, "presenter")
    /\ th' = [th EXCEPT ![t] =
                [CallTo(@, "show_1047", "presenter") EXCEPT
                    !.blk = EffectiveBlocking(presentation, "None", blocking),
                    !.cb = closed]]
    /\ UNCHANGED <<opened, blocking, entered, event_loop, presentation, window, ex5,
                 classVars>>

\* lines 1106-1111: the presenter returns; finally: self.close()
PresenterReturn ==
    \E t \in Pool :
    /\ At(t, "presenter") \/ At(t, "target_1111")
    /\ th' = [th EXCEPT ![t] = [@ EXCEPT !.pc = "close_1134", !.stack = <<"exit">>]]
    /\ UNCHANGED <<opened, blocking, entered, event_loop, presentation, window, ex5,
                 classVars>>

----------------------------------------------------------------------------

Next ==
    \/ CallShow \/ CallOpen \/ CallClose \/ CallEnter \/ CallExit
    \/ CallPresent \/ CallSetBlocking \/ SetReturn
    \/ Show1047 \/ Show1051 \/ Show1063 \/ Show1079
    \/ ShowReturn
    \/ Open1122 \/ Open1123 \/ Open1124
    \/ Close1134 \/ Close1135 \/ Close1136 \/ Close1138 \/ Close1146
    \/ Close1147 \/ Close1149 \/ Close1152 \/ Close1153 \/ CloseReturn
    \/ RunBlocking1234 \/ DummyLoop1220 \/ DummyLoop1230
    \/ RunNonblocking1250 \/ RunNonblocking1254
    \/ Exit1001 \/ Present1115 \/ Present1116 \/ Present1117
    \/ PresenterShow \/ PresenterReturn

Spec == Init /\ [][Next]_vars

----------------------------------------------------------------------------
(* properties *)

\* C1: a blocking show() with no presentation active (none registered and
\* no presenter running when show is called) runs the event loop in the
\* calling thread and returns only after the display was closed or the given
\* timeout elapsed; a display that was closed before the call is closed again
\* when show returns.
C1_BlockingShow ==
    (At(Main, "show_end") /\ th[Main].blk = "True" /\ ~th[Main].pa) =>
        /\ th[Main].ran
        /\ th[Main].why \in {"closed", "timeout"}
        /\ (th[Main].why = "timeout" => th[Main].tmo)
        /\ (th[Main].cb => closed)

C1_Witness ==
    /\ At(Main, "show_end") /\ th[Main].blk = "True" /\ ~th[Main].pa
    /\ th[Main].cb /\ th[Main].why = "timeout" /\ closed

\* C2: inside the with-block of Example 5 (only blocking show(timeout=t)
\* calls), _close() is not invoked: once __enter__ has opened the window it
\* stays on screen, so the display is open when each following show starts.
C2_WindowKeptInWith ==
    (ex5 = "on" /\ ~(th[Main].pc \in {"open_1122", "open_1123"}
                     /\ th[Main].stack = <<"idle">>))
        => window

\* C3: only one event loop per display: never two threads executing an
\* event loop at the same time.
InEventLoop(t) == At(t, "del_1220")

C3_OnlyOneEventLoop == Cardinality({t \in Threads : InEventLoop(t)}) <= 1

\* C4: when close() returns in the main thread (not registered as event
\* loop or presentation thread), the display is closed, no event loop and
\* no presentation is registered, and the background threads have terminated.
C4_CloseStopsThreads ==
    (At(Main, "close_end") /\ th[Main].stack = <<"idle">>
        /\ event_loop # Main /\ presentation # Main) =>
        /\ closed
        /\ event_loop = None
        /\ presentation = None
        /\ \A s \in Pool : th[s].st # "alive"

InOpenOrClose(t) == th[t].pc \in {"open_1124", "close_1136"}

C6_DefaultCloseRestores ==
    (At(Main, "show_end") /\ th[Main].argC = "None" /\ ~th[Main].cb) => opened

\* C7: show() with blocking None (the display's blocking property is None,
\* no close argument) starts no event loop, shows the image, calls
\* _process_events() exactly once and returns with _event_loop unchanged and
\* the display open.
C7_NoLoopShow ==
    (At(Main, "show_end") /\ th[Main].blk = "None" /\ th[Main].argC = "None") =>
        /\ th[Main].shw = 1
        /\ th[Main].pe = 1
        /\ ~th[Main].ran
        /\ event_loop = th[Main].ev0
        /\ opened

\* C8: assigning blocking a different value while the display is open raises
\* and changes nothing; assigning the current value changes nothing;
\* assigning while the display is closed takes effect.
C8_BlockingSetter ==
    At(Main, "set_end") =>
        LET new == th[Main].argC
            old == th[Main].blk
            wasClosed == th[Main].cb
        IN  /\ (new # old /\ ~wasClosed) => (th[Main].why = "raise" /\ blocking = old)
            /\ (new = old) => (th[Main].why = "same" /\ blocking = old)
            /\ (new # old /\ wasClosed) => (th[Main].why = "set" /\ blocking = new)

C8_Witness ==
    /\ At(Main, "set_end") /\ th[Main].why = "raise"
    /\ th[Main].argC # blocking /\ opened

\* C9: the calls of _open() and _close() strictly alternate, starting with
\* _open(): _open() is only called with no window on screen, _close() only
\* with the window on screen.
C9_OpenCloseAlternate ==
    [][\A t \in Threads :
          /\ (At(t, "open_1123") /\ th'[t].pc = "open_1124") => ~window
          /\ (At(t, "close_1136") /\ th'[t].pc = "close_1138") => window]_vars

\* C10: a presenter thread calling show() on a closed display gets a
\* RuntimeError: it does not reopen the window and does not call _show();
\* and show() called by a presenter never starts or runs an event loop.
C10_PresenterShow ==
    \A t \in Pool :
        (th[t].st = "alive" /\ InPresenter(th[t])) =>
            /\ th[t].cb => th[t].pc \in {"show_1047", "show_1051"}
            /\ th[t].pc \notin {"rbl_1234", "del_1220", "del_1230", "rnb_1250", "rnb_1254"}

(***************************************************************************)
(* ImageAdapter and ImageExtension (lines 347-438): class statements.      *)
(* A class statement lists its bases and, for an extension, the keyword    *)
(* base=...; it raises TypeError when the interpreter cannot linearize the *)
(* bases, at the creation of the class or at an assignment to __bases__.   *)
(* The test of the object layout made by an assignment to __bases__ is     *)
(* left out: all classes here have the layout of a plain subclass of ABC.  *)
(***************************************************************************)

\* base=None, the default of ImageExtension.__init_subclass__
NoBase == -1
\* the interpreter finds no consistent method resolution order
Inconsistent == <<-2>>

Contains(s, x) == \E i \in 1..Len(s) : s[i] = x
Count(s, x) == Cardinality({i \in 1..Len(s) : s[i] = x})

\* the merge of the C3 linearization: repeatedly take the first head that
\* is in the tail of no list; Inconsistent when there is none
Cons(h, rest) == IF rest = Inconsistent THEN Inconsistent ELSE <<h>> \o rest

NonEmpty(seqs) == SelectSeq(seqs, LAMBDA q : q # <<>>)

GoodHeads(ne) ==
    {i \in 1..Len(ne) :
        \A j \in 1..Len(ne) : ~Contains(Tail(ne[j]), Head(ne[i]))}

First(S) == CHOOSE k \in S : \A m \in S : k <= m

RECURSIVE Merge(_)
TakeHead(ne, h) ==
    Cons(h, Merge([j \in 1..Len(ne) |->
                     IF Head(ne[j]) = h THEN Tail(ne[j]) ELSE ne[j]]))

MergeStep(ne, cand) ==
    IF ne = <<>> THEN <<>>
    ELSE IF cand = {} THEN Inconsistent
    ELSE TakeHead(ne, Head(ne[First(cand)]))

Merge(seqs) == MergeStep(NonEmpty(seqs), GoodHeads(NonEmpty(seqs)))

\* the MRO of a class cls with the bases bs, given the MROs mf of the
\* classes that exist: the C3 linearization
Linearize(mf, cls, bs) ==
    Cons(cls, Merge([i \in 1..Len(bs) |-> mf[bs[i]]] \o <<bs>>))

issubclass(mf, cls, base) == Contains(mf[cls], base)

\* cls.__bases__ = tuple(new_bases): the MRO m of cls is computed anew;
\* TypeError if the bases cannot be linearized
SetMro(bf, mf, cls, new_bases, m) ==
    IF m = Inconsistent THEN [ok |-> FALSE, bf |-> bf, mf |-> mf]
    ELSE [ok |-> TRUE, bf |-> [bf EXCEPT ![cls] = new_bases],
          mf |-> [mf EXCEPT ![cls] = m]]

SetBases(bf, mf, cls, new_bases) ==
    SetMro(bf, mf, cls, new_bases, Linearize(mf, cls, new_bases))

\* ImageAdapter.__init_subclass__, lines 374-383: the loop over
\* cls.__bases__ that builds new_bases for one entry of the registry
RECURSIVE NewBases(_, _, _, _, _)
NewBases(mf, bs, base, replacement, found) ==
    IF bs = <<>> THEN <<>>
    ELSE IF Head(bs) = base
    THEN <<replacement>> \o NewBases(mf, Tail(bs), base, replacement, TRUE)
    ELSE IF ~found /\ issubclass(mf, Head(bs), base)
    THEN <<replacement, Head(bs)>>
         \o NewBases(mf, Tail(bs), base, replacement, TRUE)
    ELSE <<Head(bs)>> \o NewBases(mf, Tail(bs), base, replacement, found)

\* ImageAdapter.__init_subclass__, lines 369-385: the loop over the
\* registry, from its i-th entry on; r is the state of the classes after
\* the entries before it
RECURSIVE AdapterInitSubclass(_, _, _, _)
Replace(r, cls, base, replacement) ==
    IF Contains(r.mf[cls], base) /\ ~Contains(r.mf[cls], replacement)
    THEN SetBases(r.bf, r.mf, cls,
                  NewBases(r.mf, r.bf[cls], base, replacement, FALSE))
    ELSE r

AdapterInitSubclass(r, cls, reg, i) ==
    IF ~r.ok \/ i > Len(reg) THEN r
    ELSE AdapterInitSubclass(Replace(r, cls, reg[i][1], reg[i][2]),
                             cls, reg, i + 1)

\* ImageAdapter._image_extensions[base] = cls
Register(reg, base, cls) ==
    IF \E i \in 1..Len(reg) : reg[i][1] = base
    THEN [i \in 1..Len(reg) |->
            IF reg[i][1] = base THEN <<base, cls>> ELSE reg[i]]
    ELSE Append(reg, <<base, cls>>)

\* the outcome of a class statement: TypeError, or the bases, the MROs
\* and the registry after it
Outcome(r, reg) ==
    IF r.ok THEN [ok |-> TRUE, bf |-> r.bf, mf |-> r.mf, reg |-> reg]
    ELSE [ok |-> FALSE, bf |-> bases, mf |-> mro, reg |-> extensions]

\* ImageExtension.__init_subclass__, lines 434-438: the bases of the
\* extension are replaced and the extension is registered
ExtensionBases(r, cls, base) ==
    SetBases(r.bf, r.mf, cls,
             <<ImageAdapter, base>>
             \o SelectSeq(r.bf[cls],
                          LAMBDA base_class : base_class # ImageExtension))

\* ImageExtension.__init_subclass__, lines 428-438; r is the state of the
\* classes after super().__init_subclass__
ExtensionInitSubclass(r, cls, reg, base) ==
    IF ~r.ok \/ base = NoBase THEN Outcome(r, reg)
    ELSE Outcome(ExtensionBases(r, cls, base), Register(reg, base, cls))

\* the first __init_subclass__ in the MRO of the class just created
InitSubclass(created, cls, kw) ==
    IF ~created.ok THEN Outcome(created, extensions)
    ELSE IF Contains(created.mf[cls], ImageExtension)
    THEN ExtensionInitSubclass(
             AdapterInitSubclass(created, cls, extensions, 1),
             cls, extensions, kw)
    ELSE IF kw # NoBase
    THEN Outcome([created EXCEPT !.ok = FALSE], extensions)
    ELSE IF Contains(created.mf[cls], ImageAdapter)
    THEN Outcome(AdapterInitSubclass(created, cls, extensions, 1),
                 extensions)
    ELSE Outcome(created, extensions)

\* the execution of "class cls(*decl, base=kw)": the class is created with
\* the bases listed, then the first __init_subclass__ of its MRO is called
ClassStatement(cls, decl, kw) ==
    InitSubclass(SetBases(bases, mro, cls, decl), cls, kw)

\* the lists of bases a class statement can give: a plain class, or up to
\* MaxBases different classes among ImageAdapter, ImageExtension and the
\* classes of the program that exist
Listable == (defined \ {Object, ABC})
BaseLists ==
    {<<Object>>}
    \cup UNION {{s \in [1..n -> Listable] :
                     \A i, j \in 1..n : s[i] = s[j] => i = j} :
                n \in 1..MaxBases}

Execute(cls, decl, kw) ==
    \E r \in {ClassStatement(cls, decl, kw)} :
        /\ bases' = r.bf
        /\ mro' = r.mf
        /\ defined' = (IF r.ok THEN defined \cup {cls} ELSE defined)
        /\ extensions' = r.reg
        /\ nstmt' = nstmt + 1
        /\ last' = [cls |-> cls, decl |-> decl, kw |-> kw,
                    reg |-> extensions,
                    res |-> IF r.ok THEN "defined" ELSE "TypeError"]

\* class cls(...): a class statement without keyword
DefineClass ==
    /\ nstmt < MaxClasses
    /\ \E decl \in BaseLists : Execute(4 + nstmt, decl, NoBase)
    /\ UNCHANGED displayVars

\* class cls(..., base=B): the declaration of an extension of B
DeclareExtension ==
    /\ nstmt < MaxClasses
    /\ \E decl \in BaseLists : \E kw \in defined \cap UserClasses :
           /\ Contains(decl, ImageExtension)
              \/ \E i \in 1..Len(decl) :
                     issubclass(mro, decl[i], ImageExtension)
           /\ Execute(4 + nstmt, decl, kw)
    /\ UNCHANGED displayVars

NextExt == DefineClass \/ DeclareExtension

\* the class statements are executed when the modules are imported; the
\* display plays no part in them
InitExt == Init /\ blocking = "None"

SpecExt == InitExt /\ [][NextExt]_vars

\* the MRO of the class of the last statement with the bases as listed
DeclaredMro == Linearize(mro, last.cls, last.decl)

\* C11: a class defined (without base=) as a subclass of ImageAdapter and
\* of a class B for which the registry holds an extension E is defined
\* and has E in its MRO, and E has been inserted once into its bases
\* (also when B is inherited through a subclass of B); a class with no
\* registered base in its MRO is defined with the bases it lists.
C11_CommonSubclassExtended ==
    (last.res # "none" /\ last.kw = NoBase /\ DeclaredMro # Inconsistent) =>
        /\ \A i \in 1..Len(last.reg) :
             LET B == last.reg[i][1]
                 E == last.reg[i][2]
             IN  (Contains(DeclaredMro, ImageAdapter)
                  /\ Contains(DeclaredMro, B)) =>
                     /\ last.res = "defined"
                     /\ Contains(mro[last.cls], E)
                     /\ Count(bases[last.cls], E) =
                            IF Contains(DeclaredMro, E)
                            THEN Count(last.decl, E) ELSE 1
        /\ (\A i \in 1..Len(last.reg) :
                ~Contains(DeclaredMro, last.reg[i][1])) =>
               /\ last.res = "defined"
               /\ bases[last.cls] = last.decl
====
